---- MODULE Spec2Model ----
(***************************************************************************)
(* State-machine model of the DRRN agent of experiments/agents/drrn/drrn.py *)
(* (rollout bookkeeping, update, returned logs, save/load of checkpoints)   *)
(* as driven by experiments/train_language_agent.py.                        *)
(***************************************************************************)
EXTENDS Integers, Sequences, FiniteSets, TLC

(* ------------------------------ bounds -------------------------------- *)

\* total number of env.step calls explored over the life of the environment
MaxClock == 3
\* number of update_parameters / generate_trajectories calls explored
MaxCalls == 2
\* batch_size handed to the constructor (default 64, scaled down)
BatchSize == 4

(* -------------------------- program constants -------------------------- *)

\* maxlen of the observation deques
ObsMaxLen == 3
\* maxlen of the action deques
ActsMaxLen == 2
\* hard-coded cap on the index sent to the environment
IdxCap == 6
\* factor of reward_function
RewardScale == 20

\* the environment slots, 0 .. n_envs - 1
Slots == {0, 1}
\* self.n_envs = len(self.obs)
NEnvs == Cardinality(Slots)

\* the constructor arguments that are explored: the length of the action space,
\* max_steps (iterations per call = max_steps // n_envs) and save_frequency
Configs == { [n_actions |-> 2, max_steps |-> 3 * NEnvs, save_frequency |-> 1],
             [n_actions |-> 2, max_steps |-> NEnvs, save_frequency |-> 2],
             [n_actions |-> IdxCap + 2, max_steps |-> NEnvs, save_frequency |-> 1] }
\* loss values an executed update() may produce
LossValues == {1, 2}
\* n_tests values handed to generate_trajectories
NTests == {1}

VARIABLES
    subgoals,            \* self.subgoals: per slot the list of action texts
    max_steps,           \* self.max_steps
    save_frequency,      \* self.save_frequency
    obs_mission,         \* self.obs[j]['mission']
    obs_queue,           \* self.obs_queue
    acts_queue,          \* self.acts_queue
    states,              \* self.states
    returns,             \* self.returns
    reshaped_returns,    \* self.reshaped_returns
    frames_per_episode,  \* self.frames_per_episode
    logs,                \* self.logs
    memory,              \* self.memory (sizes of the two pools)
    network,             \* self.network (version of the weights)
    optimizer,           \* self.optimizer (number of steps taken)
    inner_counter,       \* self.__inner_counter
    pc,                  \* position of the control thread
    i,                   \* loop index of update_parameters
    episodes_done,       \* local episodes_done of the running call
    n_tests,             \* argument of the running generate_trajectories
    loss,                \* local loss of update_parameters: <<>> is None
    tick,                \* locals of the latest loop iteration
    ret,                 \* logs dictionary returned by the latest call
    env,                 \* the vectorised environment: its clock, the episode each
                         \* slot is in, and the steps of that episode so far
    files,               \* model.checkpoint, optimizer.checkpoint, memory.pkl
    load_result,         \* outcome of the latest load()
    crash,               \* where the latest save() was interrupted
    sample_calls,        \* number of memory.sample calls
    calls                \* number of calls entered (bounded by MaxCalls)

\* the PPO path: PPOUpdater.perform_update on the worker processes, and main()
VARIABLES
    ppo_files,           \* last/ and backup/: model.checkpoint, optimizer.checkpoint
    updaters,            \* per worker process: its PPOUpdater and its position
    ppo_call,            \* the lm_server.update call being executed
    ppo_hist,            \* what was written in that call, and by which process
    main_pc              \* position of main() on the PPO path

\* run_agent
VARIABLES
    run_pc,              \* position of run_agent
    status,              \* the status dictionary
    status_json,         \* the file status.json
    log_csv,             \* the file log.csv: whether it exists, header and data rows
    run_cycles,          \* loop bodies completed by this run_agent
    num_steps,           \* args.num_steps
    restarts             \* number of times the program was started again

\* the arithmetic of DRRNAgent.update and of the PPO loss
VARIABLES
    batch,               \* the sampled transitions with the network's next-state values
    targets,             \* the bootstrapped targets computed from batch
    minibatch,           \* sb and the recomputed log-probabilities, with clip_eps
    policy_loss          \* surr1, surr2 and policy_loss computed from minibatch

ppoVars == << ppo_files, updaters, ppo_call, ppo_hist, main_pc >>
runVars == << run_pc, status, status_json, log_csv, run_cycles, num_steps, restarts >>
numVars == << batch, targets, minibatch, policy_loss >>
extVars == << ppoVars, runVars, numVars >>

drrnVars == << subgoals, max_steps, save_frequency, obs_mission, obs_queue, acts_queue,
               states, returns, reshaped_returns, frames_per_episode, logs, memory,
               network, optimizer, inner_counter, pc, i, episodes_done, n_tests, loss,
               tick, ret, env, files, load_result, crash, sample_calls, calls >>

vars == << drrnVars, extVars >>

cfgVars == << subgoals, max_steps, save_frequency >>
slotVars == << obs_mission, obs_queue, acts_queue, states, returns,
               reshaped_returns, frames_per_episode >>
ckptVars == << files, load_result, crash >>

(* ------------------------------ helpers -------------------------------- *)

Min(a, b) == IF a < b THEN a ELSE b

RECURSIVE SeqSum(_)
SeqSum(s) == IF s = << >> THEN 0 ELSE Head(s) + SeqSum(Tail(s))

\* the last k entries of s (all of s when it is shorter)
LastK(s, k) == SubSeq(s, Len(s) - Min(k, Len(s)) + 1, Len(s))

(* ------------------- pure functions of the agent ----------------------- *)

\* main(): list_actions, the same list appended to subgoals for every env
list_actions(n) == [k \in 1 .. n |-> << "sg", k - 1 >>]

\* sp.EncodeAsIds: the tokenizer, an injective encoding of a text
EncodeAsIds(text) == << "ids", text >>

\* encode_actions: one encoding per entry of acts
encode_actions(acts) == [j \in DOMAIN acts |-> [k \in DOMAIN acts[j] |-> EncodeAsIds(acts[j][k])]]

\* self.encoded_actions, computed once by the constructor from self.subgoals
encoded_actions == encode_actions(subgoals)

\* BaseAgent.generate_prompt: the prompt is built from the goal, the candidate
\* actions and the two histories
generate_prompt(goal, sgs, deque_obs, deque_actions) ==
    [goal |-> goal, subgoals |-> sgs, obs |-> deque_obs, acts |-> deque_actions]

\* build_state: State(EncodeAsIds(o)) for every prompt
build_state(prompts) == [j \in DOMAIN prompts |-> [state |-> EncodeAsIds(prompts[j])]]

\* reward_function(reward=r): [total, bonus]
reward_function(reward) == IF reward > 0 THEN << RewardScale * reward, 0 >> ELSE << 0, 0 >>

\* deque(maxlen=m).append(x): the oldest entry is dropped when full
DequeAppendKeepOldest(q, x, m) == IF Len(q) < m THEN Append(q, x) ELSE q
DequeAppend(q, x, m) == IF Len(q) < m THEN Append(q, x) ELSE Append(Tail(q), x)

\* indices act() may return for a candidate list of n entries when sampling:
\* torch.multinomial over the softmax returns any index of the list; for lists
\* beyond the cap the indices explored are the first one and those around the cap
SampledIdxs(n) == IF n <= IdxCap THEN 0 .. (n - 1) ELSE {0} \cup (IdxCap .. (n - 1))

\* act(states, poss_acts, sample): the index vectors it may return
act(poss_acts, sample) ==
    IF sample
    THEN { f \in [Slots -> 0 .. (IdxCap + 1)] : \A j \in Slots : f[j] \in SampledIdxs(Len(poss_acts[j])) }
    ELSE { [j \in Slots |-> (network + j) % Len(poss_acts[j])] }

\* real_a = np.copy(action_idxs); real_a[real_a > 6] = 6
real_a_ClampBelow(action_idxs) == [j \in DOMAIN action_idxs |-> IF action_idxs[j] >= IdxCap THEN IdxCap - 1 ELSE action_idxs[j]]
real_a(action_idxs) == [j \in DOMAIN action_idxs |-> IF action_idxs[j] > IdxCap THEN IdxCap ELSE action_idxs[j]]

\* the index vector handed to env.step
step_indices(action_idxs) ==
    IF Len(subgoals[0]) > IdxCap THEN real_a(action_idxs) ELSE action_idxs

\* act(): act_ids = [poss_acts[batch][idx] for batch, idx in enumerate(act_idxs)]
action_ids_Executed(action_idxs) ==
    [j \in Slots |-> encoded_actions[j][step_indices(action_idxs)[j] + 1]]
action_ids_of(action_idxs) == [j \in Slots |-> encoded_actions[j][action_idxs[j] + 1]]

\* actions = [_subgoals[idx] for _subgoals, idx in zip(self.subgoals, action_idxs)]
actions_of(action_idxs) == [j \in Slots |-> subgoals[j][action_idxs[j] + 1]]

(* --------------------- per-slot rollout bookkeeping -------------------- *)

\* the accumulators and histories of slot j as one record
Slot(j) == [obs_queue |-> obs_queue[j], acts_queue |-> acts_queue[j],
            returns |-> returns[j], reshaped_returns |-> reshaped_returns[j],
            frames_per_episode |-> frames_per_episode[j]]

\* self.returns[j] += ...; self.reshaped_returns[j] += ...; self.frames_per_episode[j] += 1
Accumulate(s, x) ==
    [s EXCEPT !.returns = @ + x.reward,
              !.reshaped_returns = @ + x.reshaped,
              !.frames_per_episode = @ + 1]

\* the done branch: accumulators to zero, both deques cleared
EpisodeEndKeepActs(s) ==
    [s EXCEPT !.frames_per_episode = 0, !.returns = 0, !.reshaped_returns = 0,
              !.obs_queue = << >>]
EpisodeEnd(s) ==
    [s EXCEPT !.frames_per_episode = 0, !.returns = 0, !.reshaped_returns = 0,
              !.obs_queue = << >>, !.acts_queue = << >>]

\* the else branch: the action taken and the new description are remembered
Remember(s, x) ==
    [s EXCEPT !.acts_queue = DequeAppend(@, x.action, ActsMaxLen),
              !.obs_queue = DequeAppend(@, x.desc, ObsMaxLen)]

\* body of "for j in range(self.n_envs)" for one slot
Bookkeep_DescriptionAfterClear(s, x) ==
    IF x.done
    THEN [EpisodeEnd(Accumulate(s, x)) EXCEPT !.obs_queue = << x.desc >>]
    ELSE Remember(Accumulate(s, x), x)
Bookkeep(s, x) == IF x.done THEN EpisodeEnd(Accumulate(s, x)) ELSE Remember(Accumulate(s, x), x)

\* the appends to self.logs of one finished episode
LogEpisodeReshaped(lg, a) ==
    [lg EXCEPT !.num_frames_per_episode = Append(@, a.frames_per_episode),
               !.return_per_episode = Append(@, a.reshaped_returns),
               !.reshaped_return_per_episode = Append(@, a.reshaped_returns),
               !.reshaped_return_bonus_per_episode = Append(@, a.reshaped_returns)]
LogEpisode(lg, a) ==
    [lg EXCEPT !.num_frames_per_episode = Append(@, a.frames_per_episode),
               !.return_per_episode = Append(@, a.returns),
               !.reshaped_return_per_episode = Append(@, a.reshaped_returns),
               !.reshaped_return_bonus_per_episode = Append(@, a.reshaped_returns)]

\* self.logs after the slots j, j+1, ... have been handled in this order
RECURSIVE FlushDone(_, _, _)
FlushDone(lg, j, x) ==
    IF j >= NEnvs THEN lg
    ELSE FlushDone(IF x[j].done THEN LogEpisode(lg, Accumulate(Slot(j), x[j])) ELSE lg, j + 1, x)

\* number of slots reported done
NumDone(dones) == Cardinality({j \in Slots : dones[j]})

(* --------------------------- replay memory ----------------------------- *)

\* PrioritizedReplayMemory.__len__: both pools
MemLen(m) == m.priority + m.regular

\* PrioritizedReplayMemory.push(is_priority, ...): one more transition in the pool
MemPush(m, is_priority) ==
    IF is_priority THEN [m EXCEPT !.priority = @ + 1] ELSE [m EXCEPT !.regular = @ + 1]

\* observe(): self.memory.push(False, state, act, rew, next_state, next_acts, done)
observe_PushPriority(m) == MemPush(m, TRUE)
observe(m) == MemPush(m, FALSE)

\* the zip loop of observe() calls, one per slot
RECURSIVE ObserveAll(_, _)
ObserveAll(m, n) == IF n = 0 THEN m ELSE ObserveAll(observe(m), n - 1)

\* update(): does it return before sampling?
update_skips_OnlyWhenEmpty(m) == MemLen(m) = 0
update_skips(m) == MemLen(m) < BatchSize

(* ---------------------------- returned logs ---------------------------- *)

\* python v[:-k] for k >= 0 (v[:-0] is v[:0], the empty list)
SliceDropLast(v, k) == IF k = 0 THEN << >> ELSE SubSeq(v, 1, Len(v) - k)

\* the dictionary built at the end of update_parameters
update_parameters_logs(lg, done_count) ==
    [lg EXCEPT !.return_per_episode = SliceDropLast(@, done_count),
               !.reshaped_return_per_episode = SliceDropLast(@, done_count),
               !.reshaped_return_bonus_per_episode = SliceDropLast(@, done_count),
               !.num_frames_per_episode = SliceDropLast(@, done_count),
               !.episodes_done = done_count]

\* the dictionary built at the end of generate_trajectories (v[:] copies)
generate_trajectories_logs(lg, done_count) == [lg EXCEPT !.episodes_done = done_count]

(* ------------------------------ checkpoints ---------------------------- *)

Missing(empty) == [st |-> "missing", val |-> empty]
Partial(empty) == [st |-> "partial", val |-> empty]
Written(v) == [st |-> "ok", val |-> v]

EmptyMemory == [priority |-> 0, regular |-> 0]

\* save(): the order in which the three files are written
SaveOrderMemoryFirst == << "memory", "model", "optimizer" >>
SaveOrder == << "model", "optimizer", "memory" >>

\* what save() writes into file f
SavedValue(f) == IF f = "model" THEN network ELSE IF f = "optimizer" THEN optimizer ELSE memory

\* position of file f in the write sequence
RECURSIVE IndexOf(_, _, _)
IndexOf(seq, f, k) == IF seq[k] = f THEN k ELSE IndexOf(seq, f, k + 1)

SavePc(f) == IF f = "model" THEN "save_model"
             ELSE IF f = "optimizer" THEN "save_optimizer" ELSE "save_memory"
AfterPc(f) ==
    LET k == IndexOf(SaveOrder, f, 1)
    IN  IF k = Len(SaveOrder) THEN "logs" ELSE SavePc(SaveOrder[k + 1])
SavePcs == { SavePc(f) : f \in {"model", "optimizer", "memory"} }

\* load(): the try block (memory.pkl, then optimizer.checkpoint), the except
\* clause that only prints, then the unguarded load of model.checkpoint
load_ModelInsideTry(fs, mem, opt, net) ==
    LET memOk == fs["memory"].st = "ok"
        optOk == memOk /\ fs["optimizer"].st = "ok"
        netOk == optOk /\ fs["model"].st = "ok"
    IN  [memory |-> IF memOk THEN fs["memory"].val ELSE mem,
         optimizer |-> IF optOk THEN fs["optimizer"].val ELSE opt,
         network |-> IF netOk THEN fs["model"].val ELSE net,
         reported |-> ~netOk,
         raised |-> FALSE]
load(fs, mem, opt, net) ==
    LET memOk == fs["memory"].st = "ok"
        optOk == memOk /\ fs["optimizer"].st = "ok"
        netOk == fs["model"].st = "ok"
    IN  [memory |-> IF memOk THEN fs["memory"].val ELSE mem,
         optimizer |-> IF optOk THEN fs["optimizer"].val ELSE opt,
         network |-> IF netOk THEN fs["model"].val ELSE net,
         reported |-> ~optOk,
         raised |-> ~netOk]

(* ------------- the parts a specification leaves untouched -------------- *)

\* accelerator.process_index of the worker processes that hold a PPOUpdater
\* (n_llm_processes = 2)
Workers == {1, 2}

SlotNames == {"last", "backup"}
CkptFiles == {"model", "optimizer"}

\* the pretrained weights, and the state of a new optimizer
Pretrained == [run |-> 0, steps |-> 0]

\* a PPOUpdater as the worker process creates it
FreshUpdater ==
    [pc |-> "idle", plan |-> << >>, open |-> FALSE,
     has_optimizer |-> FALSE, is_loaded |-> FALSE, is_embedding_loaded |-> FALSE,
     save_first_last |-> FALSE, fell_back |-> FALSE,
     model |-> Pretrained, opt |-> Pretrained]

NoCall == [kind |-> "none", first_call |-> FALSE]

NoWriters == [s \in SlotNames |-> [f \in CkptFiles |-> {}]]

NoPpoCrash == [kind |-> "none", in_save |-> FALSE, saves_done |-> 0]

\* an empty experiment directory
NoCheckpoints == [s \in SlotNames |-> [f \in CkptFiles |-> Missing(<< >>)]]

\* the PPO path not taken (n_llm_processes = 0)
PpoIdle ==
    /\ ppo_files = NoCheckpoints
    /\ updaters = [w \in Workers |-> FreshUpdater]
    /\ ppo_call = NoCall
    /\ ppo_hist = [writers |-> NoWriters, distrib |-> {},
                   last_at_call |-> NoCheckpoints["last"],
                   saves_done |-> 0, train_calls |-> 0, crash |-> NoPpoCrash]
    /\ main_pc = "none"

\* the status of a first run
ZeroStatus == [i |-> 0, num_episodes |-> 0, num_frames |-> 0]

NoLogCsv == [exists |-> FALSE, header |-> 0, rows |-> << >>]

RunIdle ==
    /\ run_pc = "none"
    /\ status = ZeroStatus
    /\ status_json = Missing(ZeroStatus)
    /\ log_csv = NoLogCsv
    /\ run_cycles = 0
    /\ num_steps = 0
    /\ restarts = 0

NumIdle ==
    /\ batch = << >>
    /\ targets = << >>
    /\ minibatch = << >>
    /\ policy_loss = << >>

(* ------------------------------- Init ---------------------------------- *)

NoTick == [action_idxs |-> << >>, action_ids |-> << >>, actions |-> << >>,
           sent |-> << >>, rewards |-> << >>, reshaped_rewards |-> << >>,
           dones |-> << >>, descriptions |-> << >>, pushed |-> << >>,
           by |-> "none"]

NoCrash == [at |-> "none", damaged |-> FALSE, intact_before |-> FALSE]

NoLoad == [called |-> FALSE, raised |-> FALSE, reported |-> FALSE]

\* the fields __init__ gives the agent, for the environment e it has reset
Fresh(e) ==
    [obs_mission |-> [j \in Slots |-> e.episode[j]],
     obs_queue |-> [j \in Slots |-> << e.clock >>],
     acts_queue |-> [j \in Slots |-> << >>],
     states |-> build_state([j \in Slots |->
                    generate_prompt(e.episode[j], subgoals[j], << e.clock >>, << >>)]),
     logs |-> [return_per_episode |-> << >>,
               reshaped_return_per_episode |-> << >>,
               reshaped_return_bonus_per_episode |-> << >>,
               num_frames_per_episode |-> << >>,
               num_frames |-> max_steps,
               episodes_done |-> 0,
               entropy |-> 0, policy_loss |-> 0, value_loss |-> 0, grad_norm |-> 0,
               loss |-> 0],
     ret |-> [by |-> "none", logs |-> << >>]]

Constructed ==
    /\ obs_mission = Fresh(env).obs_mission
    /\ obs_queue = Fresh(env).obs_queue
    /\ acts_queue = Fresh(env).acts_queue
    /\ states = Fresh(env).states
    /\ logs = Fresh(env).logs
    /\ returns = [j \in Slots |-> 0]
    /\ reshaped_returns = [j \in Slots |-> 0]
    /\ frames_per_episode = [j \in Slots |-> 0]
    /\ memory = EmptyMemory
    /\ network = 0
    /\ optimizer = 0
    /\ inner_counter = 0
    /\ i = 0
    /\ episodes_done = 0
    /\ n_tests = 0
    /\ loss = << >>
    /\ tick = NoTick
    /\ ret = Fresh(env).ret
    /\ sample_calls = 0

InitConfig ==
    /\ \E c \in Configs :
          /\ subgoals = [j \in Slots |-> list_actions(c.n_actions)]
          /\ max_steps = c.max_steps
          /\ save_frequency = c.save_frequency
    /\ env = [clock |-> 0, episode |-> [j \in Slots |-> 0], steps |-> [j \in Slots |-> << >>]]
    /\ calls = 0
    /\ crash = NoCrash
    /\ load_result = NoLoad

Init ==
    /\ InitConfig
    /\ Constructed
    /\ PpoIdle
    /\ RunIdle
    /\ NumIdle
    /\ pc = "idle"
    /\ files = [f \in {"model", "optimizer", "memory"} |->
                   Missing(IF f = "memory" THEN EmptyMemory ELSE 0)]

(* ------------------------------ the rollout ---------------------------- *)

\* env.step(sent): the scripted environment pays 1 for executing the first
\* action of the list and 0 for any other
EnvRewards(sent) == [j \in Slots |-> IF sent[j] = 0 THEN 1 ELSE 0]

\* env.step(sent): the environment after the step, for the rewards it pays and
\* the dones it reports
EnvAfter(action_idxs, rewards, dones) ==
    [clock |-> env.clock + 1,
     episode |-> [j \in Slots |-> IF dones[j] THEN env.episode[j] + 1 ELSE env.episode[j]],
     steps |-> [j \in Slots |->
                  IF dones[j] THEN << >>
                  ELSE Append(env.steps[j], [chosen |-> action_idxs[j], reward |-> rewards[j],
                                             desc |-> env.clock + 1])]]

\* what one slot receives in a loop iteration
SlotInput(j, action_idxs, rewards, dones) ==
    [action |-> actions_of(action_idxs)[j],
     reward |-> rewards[j],
     reshaped |-> reward_function(rewards[j])[1],
     done |-> dones[j],
     desc |-> env.clock + 1]

\* the part of a loop iteration that update_parameters and generate_trajectories
\* share: act, the clamped env.step, the reshaping, the per-slot bookkeeping
Interact(action_idxs, rewards, dones) ==
    LET x == [j \in Slots |-> SlotInput(j, action_idxs, rewards, dones)]
        after == [j \in Slots |-> Bookkeep(Slot(j), x[j])]
    IN  /\ env' = EnvAfter(action_idxs, rewards, dones)
        /\ returns' = [j \in Slots |-> after[j].returns]
        /\ reshaped_returns' = [j \in Slots |-> after[j].reshaped_returns]
        /\ frames_per_episode' = [j \in Slots |-> after[j].frames_per_episode]
        /\ obs_queue' = [j \in Slots |-> after[j].obs_queue]
        /\ acts_queue' = [j \in Slots |-> after[j].acts_queue]
        /\ logs' = FlushDone(logs, 0, x)
        /\ episodes_done' = episodes_done + NumDone(dones)
        /\ states' = build_state([j \in Slots |->
                        generate_prompt(env'.episode[j], subgoals[j], obs_queue'[j], acts_queue'[j])])

\* the transition handed to observe() for slot j
Transition_RawReward(j, action_idxs, rewards, dones, next_states) ==
    [state |-> states[j],
     act |-> action_ids_of(action_idxs)[j],
     reward |-> rewards[j],
     next_state |-> next_states[j],
     next_acts |-> encoded_actions[j],
     done |-> dones[j]]
Transition_StateAfterStep(j, action_idxs, rewards, dones, next_states) ==
    [state |-> next_states[j],
     act |-> action_ids_of(action_idxs)[j],
     reward |-> reward_function(rewards[j])[1],
     next_state |-> next_states[j],
     next_acts |-> encoded_actions[j],
     done |-> dones[j]]
Transition(j, action_idxs, rewards, dones, next_states) ==
    [state |-> states[j],
     act |-> action_ids_of(action_idxs)[j],
     reward |-> reward_function(rewards[j])[1],
     next_state |-> next_states[j],
     next_acts |-> encoded_actions[j],
     done |-> dones[j]]

TickLocals(who, action_idxs, rewards, dones, pushed) ==
    [action_idxs |-> action_idxs,
     action_ids |-> action_ids_of(action_idxs),
     actions |-> actions_of(action_idxs),
     sent |-> step_indices(action_idxs),
     rewards |-> rewards,
     reshaped_rewards |-> [j \in Slots |-> reward_function(rewards[j])[1]],
     dones |-> dones,
     descriptions |-> [j \in Slots |-> env.clock + 1],
     pushed |-> pushed,
     by |-> who]

\* update_parameters is entered
UpdateParametersEnter ==
    /\ pc = "idle"
    /\ calls < MaxCalls
    /\ calls' = calls + 1
    /\ pc' = "rollout"
    /\ i' = 0
    /\ episodes_done' = 0
    /\ loss' = << >>
    /\ UNCHANGED << extVars, cfgVars, slotVars, logs, memory, network, optimizer, inner_counter,
                    n_tests, tick, ret, env, ckptVars, sample_calls >>

\* one iteration of "for i in range(self.max_steps // self.n_envs)"
RolloutTick ==
    /\ pc = "rollout"
    /\ i < max_steps \div NEnvs
    /\ env.clock < MaxClock
    /\ \E action_idxs \in act(encoded_actions, TRUE), dones \in [Slots -> BOOLEAN] :
          LET rewards == EnvRewards(step_indices(action_idxs))
          IN  /\ Interact(action_idxs, rewards, dones)
              /\ memory' = ObserveAll(memory, NEnvs)
              /\ tick' = TickLocals("update_parameters", action_idxs, rewards, dones,
                            [j \in Slots |-> Transition(j, action_idxs, rewards, dones, states')])
    /\ i' = i + 1
    /\ UNCHANGED << extVars, cfgVars, obs_mission, network, optimizer, inner_counter, pc, n_tests,
                    loss, ret, ckptVars, sample_calls, calls >>

\* after the loop: loss = self.update(); the counter; is a save due?
RolloutUpdate_InsideLoop ==
    /\ pc = "rollout"
    /\ i >= 1
    /\ i <= max_steps \div NEnvs
    /\ IF update_skips(memory)
       THEN /\ loss' = << >>
            /\ UNCHANGED << network, optimizer, sample_calls >>
       ELSE /\ \E l \in LossValues : loss' = << l >>
            /\ sample_calls' = sample_calls + 1
            /\ optimizer' = optimizer + 1
            /\ network' = network + 1
    /\ inner_counter' = inner_counter + 1
    /\ pc' = IF inner_counter' % save_frequency = 0 THEN SavePc(SaveOrder[1]) ELSE "logs"
    /\ UNCHANGED << extVars, cfgVars, slotVars, logs, memory, i, episodes_done, n_tests, tick,
                    ret, env, ckptVars, calls >>
RolloutUpdate ==
    /\ pc = "rollout"
    /\ i = max_steps \div NEnvs
    /\ IF update_skips(memory)
       THEN /\ loss' = << >>
            /\ UNCHANGED << network, optimizer, sample_calls >>
       ELSE /\ \E l \in LossValues : loss' = << l >>
            /\ sample_calls' = sample_calls + 1
            /\ optimizer' = optimizer + 1
            /\ network' = network + 1
    /\ inner_counter' = inner_counter + 1
    /\ pc' = IF inner_counter' % save_frequency = 0 THEN SavePc(SaveOrder[1]) ELSE "logs"
    /\ UNCHANGED << extVars, cfgVars, slotVars, logs, memory, i, episodes_done, n_tests, tick, ret,
                    env, ckptVars, calls >>

\* save(): file f is written (torch.save / pickle.dump into the opened file)
SaveWrite(f) ==
    /\ pc = SavePc(f)
    /\ files' = [files EXCEPT ![f] = Written(SavedValue(f))]
    /\ pc' = AfterPc(f)
    /\ UNCHANGED << extVars, cfgVars, slotVars, logs, memory, network, optimizer, inner_counter, i,
                    episodes_done, n_tests, loss, tick, ret, env, load_result, crash,
                    sample_calls, calls >>

\* the end of update_parameters: the loss field and the returned dictionary
UpdateParametersReturn ==
    /\ pc = "logs"
    /\ logs' = IF loss # << >> THEN [logs EXCEPT !.loss = loss[1]] ELSE logs
    /\ ret' = [by |-> "update_parameters", logs |-> update_parameters_logs(logs', episodes_done)]
    /\ pc' = "idle"
    /\ UNCHANGED << extVars, cfgVars, slotVars, memory, network, optimizer, inner_counter, i,
                    episodes_done, n_tests, loss, tick, env, ckptVars, sample_calls, calls >>

(* ---------------------------- the evaluation --------------------------- *)

\* BaseAgent.prompt_modifier: replaces the keys of the dictionary in the prompt
prompt_modifier(prompt, dict_modifier) ==
    IF dict_modifier = {} THEN prompt ELSE [prompt |-> prompt, replaced |-> dict_modifier]

\* generate_trajectories(dict_modifier, n_tests) is entered
GenerateTrajectoriesEnter ==
    /\ pc = "idle"
    /\ calls < MaxCalls
    /\ calls' = calls + 1
    /\ n_tests' \in NTests
    /\ episodes_done' = 0
    /\ pc' = "generate"
    /\ UNCHANGED << extVars, cfgVars, slotVars, logs, memory, network, optimizer, inner_counter, i,
                    loss, tick, ret, env, ckptVars, sample_calls >>

\* one iteration of "while episodes_done < n_tests"
GenerateTick ==
    /\ pc = "generate"
    /\ episodes_done < n_tests
    /\ env.clock < MaxClock
    /\ \E action_idxs \in act(encoded_actions, TRUE), dones \in [Slots -> BOOLEAN] :
          LET rewards == EnvRewards(step_indices(action_idxs))
          IN  /\ Interact(action_idxs, rewards, dones)
              /\ tick' = TickLocals("generate_trajectories", action_idxs, rewards, dones, << >>)
    /\ obs_mission' = [j \in Slots |-> env'.episode[j]]
    /\ UNCHANGED << extVars, cfgVars, memory, network, optimizer, inner_counter, pc, i, n_tests,
                    loss, ret, ckptVars, sample_calls, calls >>

\* the end of generate_trajectories: the returned dictionary
GenerateTrajectoriesReturn ==
    /\ pc = "generate"
    /\ episodes_done >= n_tests
    /\ ret' = [by |-> "generate_trajectories",
               logs |-> generate_trajectories_logs(logs, episodes_done)]
    /\ pc' = "idle"
    /\ UNCHANGED << extVars, cfgVars, slotVars, logs, memory, network, optimizer, inner_counter, i,
                    episodes_done, n_tests, loss, tick, env, ckptVars, sample_calls, calls >>

Next ==
    \/ UpdateParametersEnter
    \/ RolloutTick
    \/ RolloutUpdate
    \/ \E f \in {"model", "optimizer", "memory"} : SaveWrite(f)
    \/ UpdateParametersReturn
    \/ GenerateTrajectoriesEnter
    \/ GenerateTick
    \/ GenerateTrajectoriesReturn

Spec == Init /\ [][Next]_vars

(* ------------------- interrupted saves and restarts -------------------- *)

FileNames == {"model", "optimizer", "memory"}

\* the constructor arguments explored with interrupted saves
CkptConfigs == { [n_actions |-> 2, max_steps |-> NEnvs, save_frequency |-> 1] }

\* the checkpoint directory may hold anything when the agent is constructed
InitCkpt ==
    /\ \E c \in CkptConfigs :
          /\ subgoals = [j \in Slots |-> list_actions(c.n_actions)]
          /\ max_steps = c.max_steps
          /\ save_frequency = c.save_frequency
    /\ env = [clock |-> 0, episode |-> [j \in Slots |-> 0], steps |-> [j \in Slots |-> << >>]]
    /\ calls = 0
    /\ crash = NoCrash
    /\ load_result = NoLoad
    /\ Constructed
    /\ PpoIdle
    /\ RunIdle
    /\ NumIdle
    /\ pc = "constructed"
    /\ \E st \in [FileNames -> {"missing", "partial", "ok"}] :
          files = [f \in FileNames |->
                     [st |-> st[f], val |-> IF f = "memory" THEN EmptyMemory ELSE 0]]

\* the process is killed while save() is about to write, or is writing, file f:
\* the file is untouched when it was not opened yet, truncated or partly
\* written otherwise; the files written before it are complete. The program is
\* then started again: the environment is reset and a new agent is constructed
\* on the same saving_path
CrashRestart(f) ==
    /\ pc = SavePc(f)
    /\ \E damaged \in BOOLEAN :
          /\ files' = IF damaged THEN [files EXCEPT ![f] = Partial(@.val)] ELSE files
          /\ crash' = [at |-> f, damaged |-> damaged,
                       intact_before |-> \A g \in FileNames : files[g].st = "ok"]
    /\ env' = [env EXCEPT !.episode = [j \in Slots |-> 0],
                          !.steps = [j \in Slots |-> << >>]]
    /\ obs_mission' = Fresh(env').obs_mission
    /\ obs_queue' = Fresh(env').obs_queue
    /\ acts_queue' = Fresh(env').acts_queue
    /\ states' = Fresh(env').states
    /\ logs' = Fresh(env').logs
    /\ returns' = [j \in Slots |-> 0]
    /\ reshaped_returns' = [j \in Slots |-> 0]
    /\ frames_per_episode' = [j \in Slots |-> 0]
    /\ memory' = EmptyMemory
    /\ network' = 0
    /\ optimizer' = 0
    /\ inner_counter' = 0
    /\ i' = 0
    /\ episodes_done' = 0
    /\ n_tests' = 0
    /\ loss' = << >>
    /\ tick' = NoTick
    /\ ret' = Fresh(env').ret
    /\ sample_calls' = 0
    /\ load_result' = NoLoad
    /\ pc' = "constructed"
    /\ UNCHANGED << extVars, cfgVars, calls >>

\* a first run on an empty saving_path: main() does not call load()
SkipLoad ==
    /\ pc = "constructed"
    /\ \A f \in FileNames : files[f].st = "missing"
    /\ pc' = "idle"
    /\ UNCHANGED << extVars, cfgVars, slotVars, logs, memory, network, optimizer, inner_counter, i,
                    episodes_done, n_tests, loss, tick, ret, env, ckptVars, sample_calls,
                    calls >>

\* load() on the constructed agent
Load ==
    /\ pc = "constructed"
    /\ LET r == load(files, memory, optimizer, network)
       IN  /\ memory' = r.memory
           /\ optimizer' = r.optimizer
           /\ network' = r.network
           /\ load_result' = [called |-> TRUE, raised |-> r.raised, reported |-> r.reported]
           /\ pc' = IF r.raised THEN "raised" ELSE "idle"
    /\ UNCHANGED << extVars, cfgVars, slotVars, logs, inner_counter, i, episodes_done, n_tests, loss,
                    tick, ret, env, files, crash, sample_calls, calls >>

NextCkpt ==
    \/ Next
    \/ \E f \in FileNames : CrashRestart(f)
    \/ SkipLoad
    \/ Load

SpecCkpt == InitCkpt /\ [][NextCkpt]_vars

(* --------------- the PPO path: PPOUpdater.perform_update --------------- *)

\* number of lm_server.update training calls explored
MaxUpdates == 2
\* number of times the program is killed and started again
MaxRestarts == 2

\* accelerator.process_index of the process that writes during training
WriterRank == 1

\* the weights (or the optimizer state) after one more optimizer step, tagged
\* with the run of the program that produced them
Stepped(v) == [run |-> restarts, steps |-> v.steps + 1]

\* torch.load succeeds on a file that was written completely
Readable(f) == f.st = "ok"

PpoFresh ==
    /\ ppo_files = NoCheckpoints
    /\ updaters = [w \in Workers |-> FreshUpdater]
    /\ ppo_call = NoCall
    /\ ppo_hist = [writers |-> NoWriters, distrib |-> {},
                   last_at_call |-> NoCheckpoints["last"],
                   saves_done |-> 0, train_calls |-> 0, crash |-> NoPpoCrash]
    /\ main_pc = "start"

\* torch.save(..., slot/file): one write of the state held in memory
SaveOp(slot, file) == [from |-> "self", to |-> slot, file |-> file]

\* the two torch.save calls of a save, in program order
SaveOps == << SaveOp("last", "model"), SaveOp("last", "optimizer") >>

\* distutils.dir_util.copy_tree(src, dest): one copy_file per file that
\* os.listdir(src) returns, in the order it returns them
CopyOrders(src) ==
    LET present == {f \in CkptFiles : ppo_files[src][f].st # "missing"}
    IN  IF present = CkptFiles
        THEN { << "model", "optimizer" >>, << "optimizer", "model" >> }
        ELSE IF present = {} THEN { << >> }
        ELSE { << CHOOSE f \in present : TRUE >> }
copy_tree(src, dest, order) ==
    [k \in 1 .. Len(order) |-> [from |-> src, to |-> dest, file |-> order[k]]]

\* the "save the model every n updates" block: the backup, then the last iteration
TrainSavePlan_SaveBeforeBackup(order) == SaveOps \o copy_tree("last", "backup", order)
TrainSavePlan_NoBackup(order) == SaveOps
TrainSavePlan(order) == copy_tree("last", "backup", order) \o SaveOps

\* the copy at the end of the except clause of load_fine_tuned_version
RepairPlan_Reversed(order) == copy_tree("last", "backup", order)
RepairPlan(order) == copy_tree("backup", "last", order)

\* does this process write in the training branch?
writes_in_training(w, first_call) == w = WriterRank /\ first_call

\* is the running operation of worker w part of a training save?
InTrainSave(w) ==
    /\ ppo_call.kind = "train"
    /\ updaters[w].pc = "io"

\* main(): the experiment directory decides between a reload and a first save
MainStart ==
    /\ main_pc = "start"
    /\ \E kind \in {"load_fine_tuned_version", "load_embedding", "save_first_last"} :
          /\ (kind = "load_fine_tuned_version") = (ppo_files["last"]["model"].st # "missing")
          /\ ppo_call' = [kind |-> kind, first_call |-> FALSE]
          /\ updaters' = [w \in Workers |->
                [updaters[w] EXCEPT !.pc = IF kind = "load_fine_tuned_version"
                                           THEN "load_last_model" ELSE "first_save"]]
    /\ ppo_hist' = [ppo_hist EXCEPT !.writers = NoWriters, !.distrib = {},
                                    !.last_at_call = ppo_files["last"]]
    /\ main_pc' = "init_call"
    /\ UNCHANGED << ppo_files, drrnVars, runVars, numVars >>

\* perform_update with load_embedding or save_first_last: the optimizer is
\* created, the flag is tested, and last/ is about to be written
FirstSave(w) ==
    /\ updaters[w].pc = "first_save"
    /\ updaters' = [updaters EXCEPT ![w] =
          [@ EXCEPT !.has_optimizer = TRUE,
                    !.is_embedding_loaded = (ppo_call.kind = "load_embedding"),
                    !.pc = "io",
                    !.plan = SaveOps]]
    /\ UNCHANGED << ppo_files, ppo_call, ppo_hist, main_pc, drrnVars, runVars, numVars >>

\* the file of the next operation is opened for writing (and truncated)
IoOpen(w) ==
    /\ updaters[w].pc = "io"
    /\ ~updaters[w].open
    /\ LET op == Head(updaters[w].plan)
       IN  /\ ppo_files' = [ppo_files EXCEPT ![op.to][op.file] = Partial(<< >>)]
           /\ ppo_hist' = [ppo_hist EXCEPT !.writers[op.to][op.file] = @ \cup {w}]
    /\ updaters' = [updaters EXCEPT ![w].open = TRUE]
    /\ UNCHANGED << ppo_call, main_pc, drrnVars, runVars, numVars >>

\* the write is completed and the file closed
IoClose(w) ==
    /\ updaters[w].pc = "io"
    /\ updaters[w].open
    /\ LET op == Head(updaters[w].plan)
           u == updaters[w]
           written == IF op.from = "self"
                      THEN Written(IF op.file = "model" THEN u.model ELSE u.opt)
                      ELSE ppo_files[op.from][op.file]
           last_op == Len(u.plan) = 1
       IN  /\ ppo_files' = [ppo_files EXCEPT ![op.to][op.file] = written]
           /\ updaters' = [updaters EXCEPT ![w] =
                 [@ EXCEPT !.open = FALSE,
                           !.plan = Tail(@),
                           !.pc = IF last_op THEN "done" ELSE "io",
                           !.save_first_last =
                               @ \/ (last_op /\ ppo_call.kind = "save_first_last")]]
           /\ ppo_hist' = [ppo_hist EXCEPT !.saves_done =
                 IF last_op /\ ppo_call.kind = "train" THEN @ + 1 ELSE @]
    /\ UNCHANGED << ppo_call, main_pc, drrnVars, runVars, numVars >>

\* the try block of load_fine_tuned_version, first statement
LoadLastModel(w) ==
    /\ updaters[w].pc = "load_last_model"
    /\ LET f == ppo_files["last"]["model"]
       IN  updaters' = [updaters EXCEPT ![w] =
              IF Readable(f)
              THEN [@ EXCEPT !.model = f.val, !.pc = "load_last_optimizer"]
              ELSE [@ EXCEPT !.fell_back = TRUE, !.pc = "load_backup_model"]]
    /\ UNCHANGED << ppo_files, ppo_call, ppo_hist, main_pc, drrnVars, runVars, numVars >>

\* the try block, the optimizer
LoadLastOptimizer(w) ==
    /\ updaters[w].pc = "load_last_optimizer"
    /\ LET f == ppo_files["last"]["optimizer"]
       IN  updaters' = [updaters EXCEPT ![w] =
              IF Readable(f)
              THEN [@ EXCEPT !.opt = f.val, !.has_optimizer = TRUE, !.is_loaded = TRUE,
                             !.pc = "done"]
              ELSE [@ EXCEPT !.has_optimizer = TRUE, !.fell_back = TRUE,
                             !.pc = "load_backup_model"]]
    /\ UNCHANGED << ppo_files, ppo_call, ppo_hist, main_pc, drrnVars, runVars, numVars >>

\* the except clause, first statement: an exception here is not caught
LoadBackupModel(w) ==
    /\ updaters[w].pc = "load_backup_model"
    /\ LET f == ppo_files["backup"]["model"]
       IN  updaters' = [updaters EXCEPT ![w] =
              IF Readable(f)
              THEN [@ EXCEPT !.model = f.val, !.pc = "load_backup_optimizer"]
              ELSE [@ EXCEPT !.pc = "fatal"]]
    /\ UNCHANGED << ppo_files, ppo_call, ppo_hist, main_pc, drrnVars, runVars, numVars >>

\* the except clause: the optimizer, the flag, then the copy of backup/ over last/
LoadBackupOptimizer(w) ==
    /\ updaters[w].pc = "load_backup_optimizer"
    /\ LET f == ppo_files["backup"]["optimizer"]
       IN  IF Readable(f)
           THEN \E order \in CopyOrders("backup") :
                   updaters' = [updaters EXCEPT ![w] =
                      [@ EXCEPT !.opt = f.val, !.has_optimizer = TRUE, !.is_loaded = TRUE,
                                !.pc = "io", !.plan = RepairPlan(order)]]
           ELSE updaters' = [updaters EXCEPT ![w] =
                   [@ EXCEPT !.has_optimizer = TRUE, !.pc = "fatal"]]
    /\ UNCHANGED << ppo_files, ppo_call, ppo_hist, main_pc, drrnVars, runVars, numVars >>

\* lm_server.update returns once every worker has returned
CallReturn ==
    /\ ppo_call.kind # "none"
    /\ \A w \in Workers : updaters[w].pc = "done"
    /\ updaters' = [w \in Workers |-> [updaters[w] EXCEPT !.pc = "idle"]]
    /\ ppo_call' = NoCall
    /\ main_pc' = "training"
    /\ UNCHANGED << ppo_files, ppo_hist, drrnVars, runVars, numVars >>

\* the agent calls lm_server.update for a minibatch of a training update
TrainCall ==
    /\ main_pc = "training"
    /\ ppo_call.kind = "none"
    /\ ppo_hist.train_calls < MaxUpdates
    /\ \E first_call \in BOOLEAN : ppo_call' = [kind |-> "train", first_call |-> first_call]
    /\ updaters' = [w \in Workers |-> [updaters[w] EXCEPT !.pc = "update"]]
    /\ ppo_hist' = [ppo_hist EXCEPT !.writers = NoWriters, !.distrib = {},
                                    !.last_at_call = ppo_files["last"],
                                    !.train_calls = @ + 1]
    /\ UNCHANGED << ppo_files, main_pc, drrnVars, runVars, numVars >>

\* perform_update, the training branch up to the save: the row of distrib.csv,
\* the PPO loss and the optimizer step
PPOUpdate(w) ==
    /\ updaters[w].pc = "update"
    /\ \E order \in CopyOrders("last") :
          updaters' = [updaters EXCEPT ![w] =
             [@ EXCEPT !.has_optimizer = TRUE,
                       !.model = Stepped(@),
                       !.opt = Stepped(@),
                       !.pc = IF writes_in_training(w, ppo_call.first_call) THEN "io" ELSE "done",
                       !.plan = IF writes_in_training(w, ppo_call.first_call)
                                THEN TrainSavePlan(order) ELSE << >>]]
    /\ ppo_hist' = [ppo_hist EXCEPT
          !.distrib = IF writes_in_training(w, ppo_call.first_call) THEN @ \cup {w} ELSE @]
    /\ UNCHANGED << ppo_files, ppo_call, main_pc, drrnVars, runVars, numVars >>

\* an uncaught exception of a worker ends the program
Fatal ==
    /\ main_pc # "fatal"
    /\ \E w \in Workers : updaters[w].pc = "fatal"
    /\ main_pc' = "fatal"
    /\ UNCHANGED << ppo_files, updaters, ppo_call, ppo_hist, drrnVars, runVars, numVars >>

\* the program is killed (a file open for writing stays as it is) and started again
PpoCrash ==
    /\ main_pc \in {"init_call", "training"}
    /\ restarts < MaxRestarts
    /\ restarts' = restarts + 1
    /\ updaters' = [w \in Workers |-> FreshUpdater]
    /\ ppo_call' = NoCall
    /\ ppo_hist' = [ppo_hist EXCEPT !.writers = NoWriters, !.distrib = {},
                       !.crash = [kind |-> ppo_call.kind,
                                  in_save |-> \E w \in Workers : InTrainSave(w),
                                  saves_done |-> ppo_hist.saves_done]]
    /\ main_pc' = "start"
    /\ UNCHANGED << ppo_files, drrnVars, run_pc, status, status_json, log_csv, run_cycles,
                    num_steps, numVars >>

NextPPO ==
    \/ MainStart
    \/ \E w \in Workers : FirstSave(w)
    \/ \E w \in Workers : IoOpen(w)
    \/ \E w \in Workers : IoClose(w)
    \/ \E w \in Workers : LoadLastModel(w)
    \/ \E w \in Workers : LoadLastOptimizer(w)
    \/ \E w \in Workers : LoadBackupModel(w)
    \/ \E w \in Workers : LoadBackupOptimizer(w)
    \/ CallReturn
    \/ TrainCall
    \/ \E w \in Workers : PPOUpdate(w)
    \/ Fatal
    \/ PpoCrash

(* ------------------------------ run_agent ------------------------------ *)

\* the constructor arguments and args.num_steps explored under run_agent
RunConfigs == { [n_actions |-> 2, max_steps |-> NEnvs, save_frequency |-> 1,
                 num_steps |-> 2 * NEnvs],
                [n_actions |-> 2, max_steps |-> NEnvs + 1, save_frequency |-> 2,
                 num_steps |-> NEnvs + 2] }

\* "Restore training status": the dictionary run_agent starts from
restored_status_FromZero(file) == ZeroStatus
restored_status(file) == IF file.st = "missing" THEN ZeroStatus ELSE file.val

\* the three status updates of the loop body
account(st, lg) ==
    [i |-> st.i + 1,
     num_episodes |-> st.num_episodes + lg.episodes_done,
     num_frames |-> st.num_frames + lg.num_frames]

\* the first columns and the loss column of the row written to log.csv
data_row(st, lg) ==
    [update |-> st.i, episodes |-> st.num_episodes, frames |-> st.num_frames,
     loss |-> lg.loss]

\* csv_path is tested, then opened for appending (which creates it)
RunOpenCsv ==
    /\ run_pc = "start"
    /\ log_csv' = [log_csv EXCEPT !.exists = TRUE]
    /\ run_pc' = IF log_csv.exists THEN "restore" ELSE "header"
    /\ UNCHANGED << drrnVars, ppoVars, numVars, status, status_json, run_cycles, num_steps,
                    restarts >>

\* if first_created: csv_writer.writerow(header)
RunWriteHeader ==
    /\ run_pc = "header"
    /\ log_csv' = [log_csv EXCEPT !.header = @ + 1]
    /\ run_pc' = "restore"
    /\ UNCHANGED << drrnVars, ppoVars, numVars, status, status_json, run_cycles, num_steps,
                    restarts >>

\* status.json is loaded when it exists; json.load raises on a truncated file
RunRestoreStatus ==
    /\ run_pc = "restore"
    /\ IF status_json.st = "partial"
       THEN /\ run_pc' = "raised"
            /\ UNCHANGED status
       ELSE /\ status' = restored_status(status_json)
            /\ run_pc' = "loop"
    /\ UNCHANGED << drrnVars, ppoVars, numVars, status_json, log_csv, run_cycles, num_steps,
                    restarts >>

\* the loop test holds: logs = algo.update_parameters() is called
RunCallUpdateParameters ==
    /\ run_pc = "loop"
    /\ inner_counter = run_cycles
    /\ status.num_frames < num_steps
    /\ UpdateParametersEnter

\* update_parameters has returned: the status is advanced and the row written
RunAccount ==
    /\ run_pc = "loop"
    /\ pc = "idle"
    /\ inner_counter = run_cycles + 1
    /\ status' = account(status, ret.logs)
    /\ log_csv' = [log_csv EXCEPT !.rows = Append(@, data_row(status', ret.logs))]
    /\ run_cycles' = run_cycles + 1
    /\ run_pc' = "status_open"
    /\ UNCHANGED << drrnVars, ppoVars, numVars, status_json, num_steps, restarts >>

\* open(status_path, 'w'): the file is truncated
RunStatusOpen ==
    /\ run_pc = "status_open"
    /\ status_json' = Partial(status_json.val)
    /\ run_pc' = "status_dump"
    /\ UNCHANGED << drrnVars, ppoVars, numVars, status, log_csv, run_cycles, num_steps,
                    restarts >>

\* json.dump(status, dst) and the file is closed
RunStatusDump ==
    /\ run_pc = "status_dump"
    /\ status_json' = Written(status)
    /\ run_pc' = "loop"
    /\ UNCHANGED << drrnVars, ppoVars, numVars, status, log_csv, run_cycles, num_steps,
                    restarts >>

\* the loop test fails: run_agent returns
RunExit ==
    /\ run_pc = "loop"
    /\ pc = "idle"
    /\ inner_counter = run_cycles
    /\ status.num_frames >= num_steps
    /\ run_pc' = "exited"
    /\ UNCHANGED << drrnVars, ppoVars, numVars, status, status_json, log_csv, run_cycles,
                    num_steps, restarts >>

\* the program is killed and started again: main() resets the environment,
\* constructs a new agent and calls run_agent; the files stay as they are
RunCrash ==
    /\ run_pc \in {"header", "restore", "loop", "status_open", "status_dump"}
    /\ restarts < MaxRestarts
    /\ restarts' = restarts + 1
    /\ env' = [env EXCEPT !.episode = [j \in Slots |-> 0],
                          !.steps = [j \in Slots |-> << >>]]
    /\ obs_mission' = Fresh(env').obs_mission
    /\ obs_queue' = Fresh(env').obs_queue
    /\ acts_queue' = Fresh(env').acts_queue
    /\ states' = Fresh(env').states
    /\ logs' = Fresh(env').logs
    /\ returns' = [j \in Slots |-> 0]
    /\ reshaped_returns' = [j \in Slots |-> 0]
    /\ frames_per_episode' = [j \in Slots |-> 0]
    /\ memory' = EmptyMemory
    /\ network' = 0
    /\ optimizer' = 0
    /\ inner_counter' = 0
    /\ pc' = "idle"
    /\ i' = 0
    /\ episodes_done' = 0
    /\ n_tests' = 0
    /\ loss' = << >>
    /\ tick' = NoTick
    /\ ret' = Fresh(env').ret
    /\ sample_calls' = 0
    /\ status' = ZeroStatus
    /\ run_cycles' = 0
    /\ run_pc' = "start"
    /\ UNCHANGED << cfgVars, calls, ckptVars, ppoVars, numVars, status_json, log_csv,
                    num_steps >>

NextRun ==
    \/ RunOpenCsv
    \/ RunWriteHeader
    \/ RunRestoreStatus
    \/ RunCallUpdateParameters
    \/ RolloutTick
    \/ RolloutUpdate
    \/ \E f \in FileNames : SaveWrite(f)
    \/ UpdateParametersReturn
    \/ RunAccount
    \/ RunStatusOpen
    \/ RunStatusDump
    \/ RunExit
    \/ RunCrash

(* ------------- the arithmetic of the update and of the PPO loss -------- *)

\* number of transitions (samples) in the batches explored
MiniLen == 2

\* gamma = 0.9 as the fraction GammaNum / GammaDen; targets are held in
\* units of 1 / GammaDen
GammaNum == 9
GammaDen == 10

\* values the network may give a candidate next action
QValues == {-1, 0, 2}
\* reshaped rewards a transition may hold
Rewards == {0, RewardScale}
\* number of candidate next actions of a transition
NextActs == 2

\* the transitions memory.sample may return, each with the values
\* self.network(next_state, next_acts) gives its candidates
BatchInputs ==
    [1 .. MiniLen -> [reward : Rewards, done : BOOLEAN, next_vals : [1 .. NextActs -> QValues]]]

RECURSIVE SeqMax(_)
SeqMax(v) == IF Len(v) = 1 THEN v[1]
             ELSE LET m == SeqMax(Tail(v)) IN IF v[1] > m THEN v[1] ELSE m

\* next_qvals = next_qvals * (1 - done)
zero_done_NoMask(q, done) == q
zero_done(q, done) == q * (1 - (IF done THEN 1 ELSE 0))

\* targets = reward + gamma * next_qvals, per transition, in units of 1 / GammaDen
bootstrapped_targets(b) ==
    [k \in DOMAIN b |->
        GammaDen * b[k].reward + GammaNum * zero_done(SeqMax(b[k].next_vals), b[k].done)]

\* ratios are held in units of 1 / RatioScale
RatioScale == 100

\* torch.exp of a difference of log-probabilities, in units of 1 / RatioScale
exp(d) == IF d = 0 THEN RatioScale
          ELSE IF d = 1 THEN 272
          ELSE IF d = -1 THEN 37
          ELSE IF d > 1 THEN 739 ELSE 14

\* log-probabilities, advantages and clip_eps (in units of 1 / RatioScale) explored
LogProbs == {-2, -1}
Advantages == {-2, 0, 3}
ClipEps == {0, 20}

\* the minibatch sb with the log-probabilities recomputed by the model
MinibatchInputs ==
    [clip_eps : ClipEps,
     samples : [1 .. MiniLen -> [log_prob : LogProbs, sb_log_prob : LogProbs,
                                 advantage : Advantages]]]

\* torch.clamp(x, lo, hi)
clamp(x, lo, hi) == IF x < lo THEN lo ELSE IF x > hi THEN hi ELSE x

\* ratio = torch.exp(log_prob - sb['log_prob'])
ratio(x) == exp(x.log_prob - x.sb_log_prob)

\* surr1 = ratio * sb['advantage']
surr1(x) == ratio(x) * x.advantage

\* surr2 = torch.clamp(ratio, 1.0 - clip_eps, 1.0 + clip_eps) * sb['advantage']
surr2_BothBoundsUpper(x, clip_eps) ==
    clamp(ratio(x), RatioScale + clip_eps, RatioScale + clip_eps) * x.advantage
surr2(x, clip_eps) ==
    clamp(ratio(x), RatioScale - clip_eps, RatioScale + clip_eps) * x.advantage

\* policy_loss = -torch.min(surr1, surr2).mean(): the mean as the pair of the
\* sum and the number of samples
ppo_policy_loss(mb) ==
    LET s1 == [k \in DOMAIN mb.samples |-> surr1(mb.samples[k])]
        s2 == [k \in DOMAIN mb.samples |-> surr2(mb.samples[k], mb.clip_eps)]
        mn == [k \in DOMAIN mb.samples |-> Min(s1[k], s2[k])]
    IN  [surr1 |-> s1, surr2 |-> s2, sum |-> 0 - SeqSum(mn), n |-> Len(mn)]

\* update(): the targets of the sampled batch
ComputeTargets ==
    /\ batch # << >>
    /\ targets = << >>
    /\ targets' = bootstrapped_targets(batch)
    /\ UNCHANGED << drrnVars, ppoVars, runVars, batch, minibatch, policy_loss >>

\* perform_update: the policy loss of the minibatch
ComputePolicyLoss ==
    /\ minibatch # << >>
    /\ policy_loss = << >>
    /\ policy_loss' = ppo_policy_loss(minibatch)
    /\ UNCHANGED << drrnVars, ppoVars, runVars, batch, targets, minibatch >>

NextNum ==
    \/ ComputeTargets
    \/ ComputePolicyLoss

(* ------------------------- the specifications -------------------------- *)

\* the DRRN agent constructed and left alone
DrrnAside ==
    /\ \E c \in CkptConfigs :
          /\ subgoals = [j \in Slots |-> list_actions(c.n_actions)]
          /\ max_steps = c.max_steps
          /\ save_frequency = c.save_frequency
    /\ env = [clock |-> 0, episode |-> [j \in Slots |-> 0], steps |-> [j \in Slots |-> << >>]]
    /\ calls = 0
    /\ crash = NoCrash
    /\ load_result = NoLoad
    /\ Constructed
    /\ pc = "idle"
    /\ files = [f \in FileNames |-> Missing(IF f = "memory" THEN EmptyMemory ELSE 0)]

\* the PPO path from an empty experiment directory
InitPPO ==
    /\ DrrnAside
    /\ RunIdle
    /\ NumIdle
    /\ PpoFresh

SpecPPO == InitPPO /\ [][NextPPO]_vars

\* run_agent on a DRRN agent, from an empty experiment directory
InitRun ==
    /\ \E c \in RunConfigs :
          /\ subgoals = [j \in Slots |-> list_actions(c.n_actions)]
          /\ max_steps = c.max_steps
          /\ save_frequency = c.save_frequency
          /\ num_steps = c.num_steps
    /\ env = [clock |-> 0, episode |-> [j \in Slots |-> 0], steps |-> [j \in Slots |-> << >>]]
    /\ calls = 0
    /\ crash = NoCrash
    /\ load_result = NoLoad
    /\ Constructed
    /\ pc = "idle"
    /\ files = [f \in FileNames |-> Missing(IF f = "memory" THEN EmptyMemory ELSE 0)]
    /\ PpoIdle
    /\ NumIdle
    /\ run_pc = "start"
    /\ status = ZeroStatus
    /\ status_json = Missing(ZeroStatus)
    /\ log_csv = NoLogCsv
    /\ run_cycles = 0
    /\ restarts = 0

SpecRun == InitRun /\ [][NextRun]_vars

\* a sampled batch, or a minibatch, with the values the networks gave
InitNum ==
    /\ DrrnAside
    /\ PpoIdle
    /\ RunIdle
    /\ targets = << >>
    /\ policy_loss = << >>
    /\ \/ batch \in BatchInputs /\ minibatch = << >>
       \/ batch = << >> /\ minibatch \in MinibatchInputs

SpecNum == InitNum /\ [][NextNum]_vars

(* ================================ claims =============================== *)

\* a loop iteration of update_parameters or generate_trajectories is taken
IsTick == env'.clock = env.clock + 1

\* position, among the entries appended in an iteration, of the entry of slot j
DoneRank(dones, j) == Cardinality({k \in Slots : k <= j /\ dones[k]})

\* C1: after an iteration in which slot j is reported done, its two histories
\* are empty and its three accumulators are 0; a slot that was not done keeps
\* its histories (one entry more, up to the bound, the newest last) and its
\* accumulators grow by what the iteration brought.
C1_DoneSlotsClearedOthersKept ==
    [][IsTick =>
        \A j \in Slots :
            IF tick'.dones[j]
            THEN /\ obs_queue'[j] = << >>
                 /\ acts_queue'[j] = << >>
                 /\ returns'[j] = 0
                 /\ reshaped_returns'[j] = 0
                 /\ frames_per_episode'[j] = 0
            ELSE /\ Len(obs_queue'[j]) = Min(Len(obs_queue[j]) + 1, ObsMaxLen)
                 /\ Len(acts_queue'[j]) = Min(Len(acts_queue[j]) + 1, ActsMaxLen)
                 /\ obs_queue'[j][Len(obs_queue'[j])] = tick'.descriptions[j]
                 /\ acts_queue'[j][Len(acts_queue'[j])] = tick'.actions[j]
                 /\ returns'[j] = returns[j] + tick'.rewards[j]
                 /\ reshaped_returns'[j] = reshaped_returns[j] + tick'.reshaped_rewards[j]
                 /\ frames_per_episode'[j] = frames_per_episode[j] + 1]_vars

\* C1 witness: an iteration of generate_trajectories ended slot 0's episode
\* while slot 1, not done, holds a full action history
C1_Witness ==
    /\ tick.by = "generate_trajectories"
    /\ tick.dones[0]
    /\ ~tick.dones[1]
    /\ obs_queue[0] = << >>
    /\ Len(acts_queue[1]) = ActsMaxLen
    /\ returns[1] > 0

\* C2: the entry appended to return_per_episode for a slot reported done is the
\* sum of the raw rewards the environment paid that slot in the episode, and
\* the entry appended to num_frames_per_episode is the number of steps of the
\* episode, whatever the other slots do and whatever calls the episode spans.
C2_LoggedReturnIsEpisodeSum ==
    [][IsTick =>
        /\ Len(logs'.return_per_episode) = Len(logs.return_per_episode) + NumDone(tick'.dones)
        /\ Len(logs'.num_frames_per_episode) = Len(logs.num_frames_per_episode) + NumDone(tick'.dones)
        /\ \A j \in Slots :
              tick'.dones[j] =>
                 LET at == Len(logs.return_per_episode) + DoneRank(tick'.dones, j)
                     paid == [k \in 1 .. Len(env.steps[j]) |-> env.steps[j][k].reward]
                 IN  /\ logs'.return_per_episode[at] = SeqSum(paid) + tick'.rewards[j]
                     /\ logs'.num_frames_per_episode[at] = Len(env.steps[j]) + 1
        /\ \A k \in 1 .. Len(logs.return_per_episode) :
              /\ logs'.return_per_episode[k] = logs.return_per_episode[k]
              /\ logs'.num_frames_per_episode[k] = logs.num_frames_per_episode[k]]_vars

\* C2 witness: with one iteration per call, slot 1's episode ended in the first
\* call and slot 0's episode, which spans both calls, ended in the second
C2_Witness ==
    /\ max_steps = NEnvs
    /\ calls = 2
    /\ tick.by = "update_parameters"
    /\ logs.num_frames_per_episode = << 1, 2 >>
    /\ logs.return_per_episode = << 0, 2 >>

\* C3: the dictionary update_parameters returns holds, in its per-episode lists,
\* the episodes_done entries the call produced (for 2 environments that both
\* finish a 3-step episode in the call: num_frames_per_episode = [3, 3]).
C3_ReturnedListsHoldTheCallsEpisodes ==
    (pc = "idle" /\ ret.by = "update_parameters") =>
        /\ ret.logs.return_per_episode =
              LastK(logs.return_per_episode, ret.logs.episodes_done)
        /\ ret.logs.num_frames_per_episode =
              LastK(logs.num_frames_per_episode, ret.logs.episodes_done)

\* C4: update() with fewer transitions in memory than batch_size samples
\* nothing, takes no optimizer step, returns None without raising, and the loss
\* field of the returned logs keeps its previous value (0 before any update).
C4_UpdateSkippedBelowBatchSize ==
    [][/\ (pc = "rollout" /\ pc' # "rollout" /\ MemLen(memory) < BatchSize) =>
            /\ loss' = << >>
            /\ sample_calls' = sample_calls
            /\ optimizer' = optimizer
            /\ network' = network
            /\ pc' \in SavePcs \cup {"logs"}
       /\ (pc = "logs" /\ pc' = "idle" /\ MemLen(memory) < BatchSize) =>
            /\ logs'.loss = logs.loss
            /\ ret'.logs.loss = logs.loss
            /\ (sample_calls = 0 => ret'.logs.loss = 0)]_vars

\* C4 witness: a call of update_parameters has returned with the memory still
\* below batch_size
C4_Witness ==
    /\ pc = "idle"
    /\ ret.by = "update_parameters"
    /\ MemLen(memory) > 0
    /\ MemLen(memory) < BatchSize
    /\ ret.logs.loss = 0
    /\ inner_counter = 1

C6_LearnedActionIsUnclamped ==
    tick.by # "none" =>
        \A j \in Slots :
            tick.sent[j] # tick.action_idxs[j] =>
                /\ tick.by = "update_parameters" =>
                      /\ tick.pushed[j].act =
                            EncodeAsIds(list_actions(Len(subgoals[j]))[tick.action_idxs[j] + 1])
                      /\ tick.pushed[j].act #
                            EncodeAsIds(list_actions(Len(subgoals[j]))[tick.sent[j] + 1])
                /\ ~tick.dones[j] =>
                      /\ acts_queue[j][Len(acts_queue[j])] =
                            list_actions(Len(subgoals[j]))[tick.action_idxs[j] + 1]
                      /\ acts_queue[j][Len(acts_queue[j])] #
                            list_actions(Len(subgoals[j]))[tick.sent[j] + 1]

\* C6 witness: slot 0 sampled index 7, the environment executed 6, the slot
\* was not done
C6_Witness ==
    /\ tick.by = "update_parameters"
    /\ tick.action_idxs[0] = IdxCap + 1
    /\ tick.sent[0] = IdxCap
    /\ ~tick.dones[0]
    /\ tick.dones[1]

\* C7: an iteration of update_parameters pushes one transition per slot; the
\* transition of slot j holds the state held before the step, the first
\* component of reshape_reward of the slot's raw reward, the done flag of that
\* env.step, and the state built after the histories were updated.
C7_OneTransitionPerSlot ==
    [][(IsTick /\ pc = "rollout") =>
        /\ MemLen(memory') = MemLen(memory) + NEnvs
        /\ DOMAIN tick'.pushed = Slots
        /\ \A j \in Slots :
              /\ tick'.pushed[j].state = states[j]
              /\ tick'.pushed[j].reward =
                    (IF tick'.rewards[j] > 0 THEN RewardScale * tick'.rewards[j] ELSE 0)
              /\ tick'.pushed[j].done = tick'.dones[j]
              /\ tick'.pushed[j].done = (env'.episode[j] # env.episode[j])
              /\ tick'.pushed[j].next_state = states'[j]
              /\ tick'.pushed[j].next_state.state[2].obs = obs_queue'[j]
              /\ tick'.pushed[j].next_state.state[2].acts = acts_queue'[j]
              /\ tick'.pushed[j].next_state.state[2].goal = env'.episode[j]]_vars

\* C7 witness: the second iteration of a call pushed a rewarded, done
\* transition for slot 0 and a not-done one for slot 1
C7_Witness ==
    /\ tick.by = "update_parameters"
    /\ i = 2
    /\ MemLen(memory) = 2 * NEnvs
    /\ tick.pushed[0].reward = RewardScale
    /\ tick.pushed[0].done
    /\ ~tick.pushed[1].done
    /\ tick.pushed[1].reward = 0

\* the descriptions and the action texts slot j received since its histories
\* were last empty, in order of arrival (the description of the reset belongs
\* to the first episode)
ArrivedObs(j) ==
    (IF env.episode[j] = 0 THEN << 0 >> ELSE << >>) \o
        [k \in 1 .. Len(env.steps[j]) |-> env.steps[j][k].desc]
ArrivedActs(j) ==
    [k \in 1 .. Len(env.steps[j]) |-> list_actions(Len(subgoals[j]))[env.steps[j][k].chosen + 1]]

\* C8: an observation history never holds more than 3 entries, an action
\* history never more than 2, and after a run of not-done steps they hold the
\* most recent descriptions and actions in order of arrival.
C8_HistoriesBoundedMostRecent ==
    \A j \in Slots :
        /\ Len(obs_queue[j]) <= ObsMaxLen
        /\ Len(acts_queue[j]) <= ActsMaxLen
        /\ obs_queue[j] = LastK(ArrivedObs(j), ObsMaxLen)
        /\ acts_queue[j] = LastK(ArrivedActs(j), ActsMaxLen)

\* C8 witness: slot 0 received four descriptions and three actions in its
\* first episode, so both of its histories dropped their oldest entry
C8_Witness ==
    /\ Len(env.steps[0]) = ObsMaxLen
    /\ env.episode[0] = 0
    /\ Len(obs_queue[0]) = ObsMaxLen
    /\ Len(acts_queue[0]) = ActsMaxLen
    /\ obs_queue[0][1] = 1

\* C9: load() raises exactly when model.checkpoint cannot be read; when
\* memory.pkl or optimizer.checkpoint cannot be read it reports the failure and
\* goes on with the fresh optimizer (and the fresh buffer when memory.pkl is
\* the one that failed).
C9_LoadToleratesAuxiliaryFailure ==
    [][(pc = "constructed" /\ load_result'.called) =>
        /\ load_result'.raised = (files["model"].st # "ok")
        /\ (files["memory"].st # "ok" \/ files["optimizer"].st # "ok") =>
              /\ load_result'.reported
              /\ optimizer' = 0
        /\ files["memory"].st # "ok" => memory' = EmptyMemory
        /\ files["model"].st = "ok" => (pc' = "idle" /\ network' = files["model"].val)]_vars

\* C9 witness: load() returned normally after reporting a failure
C9_Witness ==
    /\ load_result.called
    /\ load_result.reported
    /\ ~load_result.raised
    /\ pc = "idle"
    /\ files["memory"].st = "ok"
    /\ files["optimizer"].st = "partial"

\* C10 as claimed: whatever the point at which save() was interrupted, the
\* load() that follows completes.
C10_LoadToleratesAnyInterruptedSave ==
    (crash.at # "none" /\ crash.intact_before /\ load_result.called) => ~load_result.raised

\* C10 as amended: load() completes after a save() interrupted once
\* model.checkpoint was written completely, and raises after a save()
\* interrupted while model.checkpoint was being written.
C10_LoadAfterInterruptedSave ==
    (crash.at # "none" /\ load_result.called) =>
        /\ crash.at \in {"optimizer", "memory"} => ~load_result.raised
        /\ (crash.at = "model" /\ crash.damaged) => load_result.raised

\* C10 witness: save() was interrupted while writing optimizer.checkpoint and
\* the load() of the restarted program completed
C10_Witness ==
    /\ crash.at = "optimizer"
    /\ crash.damaged
    /\ load_result.called
    /\ ~load_result.raised
    /\ load_result.reported


\* C11: in a training call, whenever last/ differs from what it held when the
\* call began, backup/ already holds exactly what last/ held then; once the
\* save is complete, backup/ is the previous checkpoint of last/ and last/ the
\* new one.
C11_BackupIsPreviousLast ==
    ppo_call.kind = "train" =>
        /\ ppo_files["last"] # ppo_hist.last_at_call =>
              ppo_files["backup"] = ppo_hist.last_at_call
        /\ (ppo_call.first_call /\ updaters[WriterRank].pc = "done") =>
              /\ ppo_files["backup"] = ppo_hist.last_at_call
              /\ ppo_files["last"]["model"] = Written(updaters[WriterRank].model)
              /\ ppo_files["last"]["optimizer"] = Written(updaters[WriterRank].opt)

\* C11 witness: the second training save is complete, backup/ holds the
\* checkpoint of the first and last/ a newer one
C11_Witness ==
    /\ ppo_call.kind = "train"
    /\ ppo_call.first_call
    /\ updaters[WriterRank].pc = "done"
    /\ ppo_hist.saves_done = 2
    /\ ppo_files["backup"]["model"].st = "ok"
    /\ ppo_files["backup"]["model"].val.steps = 1
    /\ ppo_files["last"]["model"].val.steps = 2

\* C12: when a load_fine_tuned_version call has been served, a worker that
\* could not restore from last/ holds the model and the optimizer of backup/,
\* is marked loaded, and last/ holds the same checkpoint as backup/; a worker
\* that restored from last/ wrote no file; backup/ is never written, and when
\* no worker fell back neither is last/.
C12_FallBackThenResynchronise ==
    (ppo_call.kind = "load_fine_tuned_version" /\ \A w \in Workers : updaters[w].pc = "done") =>
        /\ \A w \in Workers :
              /\ updaters[w].is_loaded
              /\ updaters[w].fell_back =>
                    /\ updaters[w].model = ppo_files["backup"]["model"].val
                    /\ updaters[w].opt = ppo_files["backup"]["optimizer"].val
                    /\ \A f \in CkptFiles : Readable(ppo_files["backup"][f])
                    /\ ppo_files["last"] = ppo_files["backup"]
              /\ ~updaters[w].fell_back =>
                    \A sl \in SlotNames, f \in CkptFiles : w \notin ppo_hist.writers[sl][f]
        /\ \A f \in CkptFiles : ppo_hist.writers["backup"][f] = {}
        /\ (\E f \in CkptFiles : ~Readable(ppo_hist.last_at_call[f])) =>
              \E w \in Workers : updaters[w].fell_back
        /\ (\A w \in Workers : ~updaters[w].fell_back) =>
              /\ ppo_files["last"] = ppo_hist.last_at_call
              /\ \A f \in CkptFiles : ppo_hist.writers["last"][f] = {}

\* C12 witness: after a training save was interrupted, worker 1 fell back to
\* backup/ and repaired last/, and worker 2 then restored from last/
C12_Witness ==
    /\ ppo_call.kind = "load_fine_tuned_version"
    /\ \A w \in Workers : updaters[w].pc = "done"
    /\ updaters[1].fell_back
    /\ ~updaters[2].fell_back
    /\ ppo_hist.crash.in_save
    /\ ppo_files["last"] = ppo_files["backup"]
    /\ ppo_files["last"] # ppo_hist.last_at_call

\* C13: after a crash inside a training save that follows at least one
\* completed training save, the restarted program never meets a fatal error,
\* and when its load_fine_tuned_version call has been served every worker is
\* loaded with a model and an optimizer read from last/ or from backup/; a
\* worker fails fatally only if a file of backup/ cannot be read.
C13_RestartAfterInterruptedSaveRecovers ==
    /\ (ppo_hist.crash.in_save /\ ppo_hist.crash.saves_done >= 1) =>
          /\ main_pc # "fatal"
          /\ \A w \in Workers : updaters[w].pc # "fatal"
          /\ (ppo_call.kind = "load_fine_tuned_version"
                /\ \A w \in Workers : updaters[w].pc = "done") =>
                \A w \in Workers :
                    /\ updaters[w].is_loaded
                    /\ updaters[w].has_optimizer
                    /\ updaters[w].model \in { ppo_hist.last_at_call["model"].val,
                                               ppo_files["backup"]["model"].val }
                    /\ updaters[w].opt \in { ppo_hist.last_at_call["optimizer"].val,
                                             ppo_files["backup"]["optimizer"].val }
    /\ \A w \in Workers :
          updaters[w].pc = "fatal" => \E f \in CkptFiles : ~Readable(ppo_files["backup"][f])

\* C13 witness: the second training save was interrupted while it wrote last/,
\* and the restarted workers have been served, one of them from backup/
C13_Witness ==
    /\ ppo_hist.crash.in_save
    /\ ppo_hist.crash.saves_done = 1
    /\ ppo_call.kind = "load_fine_tuned_version"
    /\ \A w \in Workers : updaters[w].pc = "done"
    /\ \E w \in Workers : updaters[w].fell_back
    /\ \A w \in Workers : updaters[w].is_loaded

\* C14: in every lm_server.update call (training, save_first_last,
\* load_embedding, load_fine_tuned_version with its repair) a file of last/ or
\* backup/ is written by the designated process only, and so is distrib.csv.
C14_OnlyTheDesignatedProcessWrites ==
    /\ \A sl \in SlotNames, f \in CkptFiles : ppo_hist.writers[sl][f] \subseteq {WriterRank}
    /\ ppo_hist.distrib \subseteq {WriterRank}

\* C15: within a call of update_parameters the network and the optimizer
\* change only in the single step that follows the last of the
\* max_steps // n_envs iterations; that step is taken once per call; no
\* iteration changes them; save() writes only after that step, and the call
\* returns only after it.
C15_CollectThenUpdate ==
    [][/\ (network' # network \/ optimizer' # optimizer \/ sample_calls' # sample_calls
              \/ inner_counter' # inner_counter) =>
             /\ pc = "rollout"
             /\ pc' \in SavePcs \cup {"logs"}
             /\ i = max_steps \div NEnvs
             /\ inner_counter' = inner_counter + 1
             /\ i' = i
       /\ (pc = "rollout" /\ pc' = "rollout") =>
             /\ i < max_steps \div NEnvs
             /\ i' = i + 1
             /\ MemLen(memory') = MemLen(memory) + NEnvs
             /\ network' = network
             /\ optimizer' = optimizer
       /\ (pc = "rollout" /\ pc' # "rollout") =>
             /\ i = max_steps \div NEnvs
             /\ inner_counter' = inner_counter + 1
       /\ (pc # "rollout" /\ pc' = "rollout") => (pc = "idle" /\ i' = 0)
       /\ files' # files =>
             /\ pc \in SavePcs
             /\ i = max_steps \div NEnvs
             /\ network' = network
       /\ (pc \in SavePcs \cup {"logs"}) => pc' \in SavePcs \cup {"logs", "idle"}
       /\ (pc' = "idle" /\ pc \notin {"idle", "generate"}) => pc = "logs"]_vars

\* C15 witness: a call with three iterations has updated the network once,
\* after the third iteration, and saved
C15_Witness ==
    /\ pc = "logs"
    /\ i = 3
    /\ max_steps \div NEnvs = 3
    /\ inner_counter = 1
    /\ sample_calls = 1
    /\ network = 1
    /\ files["model"] = Written(1)

\* C16: the loop body of run_agent advances i by 1, num_episodes by the
\* call's episodes_done and num_frames by the call's num_frames, appends one
\* row to log.csv, and leaves status.json holding the advanced status; the
\* header is written only into a log.csv that did not exist; a restarted
\* run_agent starts from the status found in status.json.
C16_StatusAndLogAdvanceOncePerCycle ==
    [][/\ (run_pc = "loop" /\ run_pc' = "status_open") =>
             /\ status'.i = status.i + 1
             /\ status'.num_episodes = status.num_episodes + ret.logs.episodes_done
             /\ status'.num_frames = status.num_frames + ret.logs.num_frames
             /\ log_csv'.rows = Append(log_csv.rows,
                    [update |-> status.i + 1,
                     episodes |-> status.num_episodes + ret.logs.episodes_done,
                     frames |-> status.num_frames + ret.logs.num_frames,
                     loss |-> ret.logs.loss])
             /\ log_csv'.header = log_csv.header
       /\ (run_pc = "status_dump" /\ run_pc' = "loop") =>
             /\ status_json'.st = "ok"
             /\ status_json'.val = status
             /\ status_json'.val.i = status_json.val.i + 1
             /\ status' = status
       /\ log_csv'.rows # log_csv.rows => (run_pc = "loop" /\ run_pc' = "status_open")
       /\ log_csv'.header # log_csv.header =>
             /\ log_csv.header = 0
             /\ log_csv'.header = 1
             /\ log_csv.rows = << >>
       /\ (run_pc = "restore" /\ run_pc' = "loop") =>
             /\ status_json.st = "ok" => status' = status_json.val
             /\ status_json.st = "missing" => status' = ZeroStatus
       /\ (run_pc = "loop" /\ pc = "idle" /\ inner_counter = run_cycles
              /\ status_json.st = "ok") => status = status_json.val]_vars

\* C16 witness: the program was killed after its first cycle and started
\* again; the second cycle left i = 2 in status.json and two rows under one
\* header
C16_Witness ==
    /\ restarts = 1
    /\ run_pc = "loop"
    /\ run_cycles = 1
    /\ status.i = 2
    /\ status_json = Written(status)
    /\ Len(log_csv.rows) = 2
    /\ log_csv.rows[2].update = 2
    /\ log_csv.header = 1

\* C17: the target of a sampled transition is reward + gamma * (the largest
\* value the network gives a candidate next action) when done is false, and
\* the reward alone when done is true (targets in units of 1 / GammaDen).
C17_TargetBootstrapsUnlessDone ==
    targets # << >> =>
        \A k \in DOMAIN batch :
            \E c \in DOMAIN batch[k].next_vals :
                /\ \A e \in DOMAIN batch[k].next_vals : batch[k].next_vals[e] <= batch[k].next_vals[c]
                /\ targets[k] = IF batch[k].done
                                THEN GammaDen * batch[k].reward
                                ELSE GammaDen * batch[k].reward
                                        + GammaNum * batch[k].next_vals[c]

\* C17 witness: the first transition is done with a rewarded step and a next
\* state the network values at 2; the second is not done, with negative values
C17_Witness ==
    /\ targets # << >>
    /\ batch[1].done
    /\ batch[1].reward = RewardScale
    /\ batch[1].next_vals = << 0, 2 >>
    /\ targets[1] = GammaDen * RewardScale
    /\ ~batch[2].done
    /\ batch[2].next_vals = << -1, -1 >>
    /\ targets[2] = 0 - GammaNum

\* C18: when the recomputed log-probability of every sample equals the stored
\* one, surr1 and surr2 agree on every sample and policy_loss is minus the mean
\* of the advantages, for every clip_eps >= 0 (in units of 1 / RatioScale).
C18_UnitRatioLossIsMinusMeanAdvantage ==
    (policy_loss # << >>
        /\ minibatch.clip_eps >= 0
        /\ \A k \in DOMAIN minibatch.samples :
              minibatch.samples[k].log_prob = minibatch.samples[k].sb_log_prob) =>
        /\ \A k \in DOMAIN minibatch.samples :
              /\ policy_loss.surr1[k] = policy_loss.surr2[k]
              /\ policy_loss.surr1[k] = RatioScale * minibatch.samples[k].advantage
        /\ policy_loss.n = Len(minibatch.samples)
        /\ policy_loss.sum =
              0 - RatioScale * SeqSum([k \in DOMAIN minibatch.samples |->
                                          minibatch.samples[k].advantage])

\* C18 witness: unit ratios with clip_eps = 0.2, one negative and one positive
\* advantage
C18_Witness ==
    /\ policy_loss # << >>
    /\ minibatch.clip_eps = 20
    /\ \A k \in DOMAIN minibatch.samples :
          minibatch.samples[k].log_prob = minibatch.samples[k].sb_log_prob
    /\ minibatch.samples[1].advantage = -2
    /\ minibatch.samples[2].advantage = 3
    /\ policy_loss.sum = 0 - RatioScale

\* C19: every iteration of generate_trajectories takes, for each slot, the
\* arg-max index of the policy's values (the index act() returns with
\* sample=False), so that the choice is a function of the agent's state.
C19_EvaluationTakesArgMax ==
    tick.by = "generate_trajectories" => tick.action_idxs \in act(encoded_actions, FALSE)

\* C20: the num_frames that update_parameters returns is the number of
\* environment-slot steps the call executed, n_envs * (max_steps // n_envs),
\* and run_agent's status counts exactly those.
C20_ReportedFramesAreExecutedSteps ==
    /\ (pc = "idle" /\ ret.by = "update_parameters") =>
          /\ ret.logs.num_frames = NEnvs * i
          /\ ret.logs.num_frames = NEnvs * (max_steps \div NEnvs)
    /\ (run_pc = "status_open" /\ restarts = 0) =>
          status.num_frames = run_cycles * NEnvs * (max_steps \div NEnvs)

\* C21: after a training save was interrupted and the program started again,
\* every worker served by load_fine_tuned_version holds a model and an
\* optimizer state of the same save generation.
C21_RestoredPairIsOneGeneration ==
    (ppo_hist.crash.in_save
        /\ ppo_call.kind = "load_fine_tuned_version"
        /\ \A w \in Workers : updaters[w].pc = "done") =>
        \A w \in Workers : updaters[w].model = updaters[w].opt

\* C22: in an episode after the first, a slot's histories hold only what
\* arrived with the not-done steps of that episode, so its first state is
\* built from two empty histories and, below the bound, the two histories have
\* the same length; in the first episode the observation history starts with
\* the description of the reset and, below the bound, is one longer than the
\* action history.
C22_LaterEpisodesStartFromEmptyHistories ==
    \A j \in Slots :
        LET n == Len(env.steps[j])
            descs == [k \in 1 .. n |-> env.steps[j][k].desc]
            prompt == states[j].state[2]
        IN  /\ prompt.obs = obs_queue[j]
            /\ prompt.acts = acts_queue[j]
            /\ env.episode[j] > 0 =>
                  /\ obs_queue[j] = LastK(descs, ObsMaxLen)
                  /\ n = 0 => (prompt.obs = << >> /\ prompt.acts = << >>)
                  /\ Len(obs_queue[j]) < ObsMaxLen => Len(obs_queue[j]) = Len(acts_queue[j])
            /\ env.episode[j] = 0 =>
                  /\ obs_queue[j] = LastK(<< 0 >> \o descs, ObsMaxLen)
                  /\ n = 0 => (prompt.obs = << 0 >> /\ prompt.acts = << >>)
                  /\ Len(obs_queue[j]) < ObsMaxLen => Len(obs_queue[j]) = Len(acts_queue[j]) + 1

\* C22 witness: slot 0 is one step into its second episode with histories of
\* equal length, slot 1 is two steps into its first episode
C22_Witness ==
    /\ env.episode[0] = 1
    /\ Len(env.steps[0]) = 1
    /\ Len(obs_queue[0]) = 1
    /\ Len(acts_queue[0]) = 1
    /\ env.episode[1] = 0
    /\ Len(obs_queue[1]) = ObsMaxLen
    /\ Len(acts_queue[1]) = ActsMaxLen

\* C23: when the latest iteration before an iteration of update_parameters
\* was one of update_parameters too (in the same call or in the call before),
\* the state of each slot's new transition is the next_state of its previous
\* transition; after a done it is the state built from the cleared histories.
C23_TransitionsChain ==
    [][(IsTick /\ pc = "rollout" /\ tick.by = "update_parameters") =>
        \A j \in Slots :
            /\ tick'.pushed[j].state = tick.pushed[j].next_state
            /\ tick.dones[j] =>
                  /\ tick'.pushed[j].state.state[2].obs = << >>
                  /\ tick'.pushed[j].state.state[2].acts = << >>]_vars

\* C23 witness: the first iteration of the second update_parameters call
\* followed the iteration of the first call, in which slot 0 was done
C23_Witness ==
    /\ calls = 2
    /\ ret.by = "update_parameters"
    /\ tick.by = "update_parameters"
    /\ pc = "rollout"
    /\ i = 1
    /\ env.clock = 2
    /\ tick.pushed[0].state.state[2].obs = << >>
    /\ tick.pushed[1].state.state[2].obs = << 0, 1 >>

\* C24: every transition is pushed with the priority flag false: the priority
\* pool of the replay memory is always empty, len(memory) is the size of the
\* other pool, and an iteration of update_parameters adds n_envs to it.
C24_PriorityPoolStaysEmpty ==
    [][/\ memory.priority = 0
       /\ memory'.priority = 0
       /\ MemLen(memory') = memory'.regular
       /\ (IsTick /\ pc = "rollout") => memory'.regular = memory.regular + NEnvs]_vars

\* C24 witness: three iterations have pushed three transitions per slot
C24_Witness ==
    /\ tick.by = "update_parameters"
    /\ i = 3
    /\ memory.regular = 3 * NEnvs
    /\ memory.priority = 0
    /\ MemLen(memory) = 3 * NEnvs

====
